---- MODULE Spec2Model ----
(***************************************************************************)
(* nu_plugin_nickel: the cross-boundary object cache (src/cache.rs), the   *)
(* handles the host holds on its entries (nickel/values/nu_nickel_value)   *)
(* and the drop-notification sink (src/lib.rs).                            *)
(*                                                                         *)
(* The store is the HashMap behind the Mutex; a present identifier is an   *)
(* element of DOMAIN store.  Time is counted in hours, the unit of         *)
(* cleanup_old_entries' argument.  reference_count keeps its width (i16):  *)
(* an overflowing += 1 / -= 1 panics in a build with overflow checks       *)
(* (poisoning the Mutex it holds) and wraps in a build without them; the   *)
(* build is fixed by Init and both are explored.                           *)
(***************************************************************************)
EXTENDS Integers, FiniteSets, Sequences, TLC

VARIABLES
    store,            \* HashMap<Uuid, CachedNickelValue> behind the Mutex
    poisoned,         \* the Mutex is poisoned (a panic happened while it was held)
    overflow_checks,  \* the build panics on integer overflow (debug) or wraps (release)
    issued,           \* the Uuids Uuid::new_v4 has returned so far
    now,              \* Utc::now(), in hours
    handles,          \* host side: live NuNickelValueCustomValue instances per id
    balance,          \* ghost: 1 + increments - decrements called on an id since its insert
    ret,              \* what the last call returned
    lock,             \* the thread that holds the Mutex, or NoThread
    pc,               \* where each thread is in the call it is making
    cur,              \* the call each thread is making: arguments, register, result
    ncalls,           \* calls each thread has completed
    seq,              \* ghost: the cache after the same calls made one at a time,
                      \* in the order in which they took the lock
    deleted,          \* ghost: the identifiers whose entry was deleted
    copy              \* the Option<CachedNickelValue> a caller keeps from a get

\* The threads' side of the state; the sequential actions leave it alone.
conc == <<lock, pc, cur, ncalls, seq>>

vars == <<store, poisoned, overflow_checks, issued, now, handles, balance, ret, conc,
          deleted, copy>>

(***************************************************************************)
(* Bounds of the model.                                                    *)
(***************************************************************************)
MaxTime == 1       \* hours the clock advances
MaxRef == 2        \* width of each explored window of reference counts
MaxHandles == 2    \* live handle instances per identifier on the host
MaxAge == 1        \* largest max_age_hours passed to cleanup_old_entries
MaxCalls == 2      \* calls each concurrent caller makes

(***************************************************************************)
(* Program constants: the range of reference_count: i16.                   *)
(***************************************************************************)
I16Max == 32767
I16Min == -32768

\* The Uuids Uuid::new_v4 can return in one run, the values that get cached.
Ids == {"u1", "u2"}
NoId == "-"
\* The concurrent callers of the shared cache.
Threads == {"t1", "t2"}
NoThread == "-"
Jsons == {"j1", "j2"}
Sources == {"s1"}
TypeInfos == {"Record"}
NoneV == "None"

\* Option<T> is the empty set or a singleton.
Some(x) == {x}
None == {}

(***************************************************************************)
(* NickelPluginObject: the three variants.                                 *)
(***************************************************************************)
JsonValue(json) ==
    [tag |-> "JsonValue", json |-> json, source_code |-> NoneV, type_info |-> NoneV]

SerializedNickelTerm(json_representation, source_code, type_info) ==
    [tag |-> "SerializedNickelTerm", json |-> json_representation,
     source_code |-> source_code, type_info |-> type_info]

EvaluatedValue(json, source_code) ==
    [tag |-> "EvaluatedValue", json |-> json, source_code |-> source_code,
     type_info |-> NoneV]

CachedNickelValue(uuid, value, created, reference_count) ==
    [uuid |-> uuid, value |-> value, created |-> created,
     reference_count |-> reference_count]

EmptyMap == [x \in {} |-> 0]

\* HashMap::insert: the key's previous value, if any, is overwritten.
HashMapInsert(s, id, e) ==
    [x \in DOMAIN s \cup {id} |-> IF x = id THEN e ELSE s[x]]

\* HashMap::remove.
HashMapRemove(s, id) == [x \in DOMAIN s \ {id} |-> s[x]]

\* i16 arithmetic without overflow checks: two's complement wrap.
I16Wrap(n) == ((n - I16Min) % (I16Max - I16Min + 1)) + I16Min

I16Overflows(n) == n > I16Max \/ n < I16Min

\* The reference counts the model follows: the counts near 0, near the top
\* and near the bottom of i16.  A step that would leave them is not taken.
RcWindow ==
    (I16Min .. I16Min + MaxRef) \cup (0 .. MaxRef) \cup (I16Max - MaxRef .. I16Max)

\* A generator that may return a Uuid it returned before.
NewV4_Any == Ids

\* Uuid::new_v4(): a Uuid that was never returned before.
NewV4 == Ids \ issued

(***************************************************************************)
(* The cache operations as functions of the map they lock.                 *)
(***************************************************************************)
insert_json(s, id, value, t) ==
    HashMapInsert(s, id, CachedNickelValue(id, JsonValue(value), t, 1))

insert_nickel_term(s, id, source_code, json_representation, type_info, t) ==
    HashMapInsert(s, id,
        CachedNickelValue(id,
            SerializedNickelTerm(json_representation, source_code, type_info), t, 1))

insert_evaluated(s, id, json, source_code, t) ==
    HashMapInsert(s, id, CachedNickelValue(id, EvaluatedValue(json, source_code), t, 1))

\* cache.get(id).cloned()
get(s, id) == IF id \in DOMAIN s THEN Some(s[id]) ELSE None

\* reference_count += 1 on the entry, if there is one.
increment_ref(s, id, checks) ==
    IF id \notin DOMAIN s
    THEN [store |-> s, panic |-> FALSE]
    ELSE LET n == s[id].reference_count + 1 IN
         IF I16Overflows(n) /\ checks
         THEN [store |-> s, panic |-> TRUE]
         ELSE [store |-> [s EXCEPT ![id].reference_count = I16Wrap(n)],
               panic |-> FALSE]

\* reference_count -= 1; the entry goes when the count is <= 0.
decrement_ref(s, id, checks) ==
    IF id \notin DOMAIN s
    THEN [store |-> s, val |-> "false", panic |-> FALSE]
    ELSE LET n == s[id].reference_count - 1 IN
         IF I16Overflows(n) /\ checks
         THEN [store |-> s, val |-> "panic", panic |-> TRUE]
         ELSE IF I16Wrap(n) <= 0
              THEN [store |-> HashMapRemove(s, id), val |-> "true", panic |-> FALSE]
              ELSE [store |-> [s EXCEPT ![id].reference_count = I16Wrap(n)],
                    val |-> "false", panic |-> FALSE]

remove(s, id) == [store |-> HashMapRemove(s, id), out |-> get(s, id)]

len(s) == Cardinality(DOMAIN s)

is_empty(s) == DOMAIN s = {}

\* A sweep that keeps an unreferenced entry created exactly at the cutoff.
Retained_AtCutoff(cached_value, cutoff) ==
    cached_value.reference_count > 0 \/ cached_value.created >= cutoff

\* A sweep that looks at the age alone.
Retained_AgeOnly(cached_value, cutoff) == cached_value.created > cutoff

\* The closure of cache.retain in cleanup_old_entries.
Retained(cached_value, cutoff) ==
    cached_value.reference_count > 0 \/ cached_value.created > cutoff

cleanup_old_entries(s, max_age_hours, t) ==
    LET cutoff == t - max_age_hours
        keep == {id \in DOMAIN s : Retained(s[id], cutoff)}
    IN [id \in keep |-> s[id]]

(***************************************************************************)
(* State.                                                                  *)
(***************************************************************************)
\* op: the operation; id: its identifier argument (the identifier returned, for
\* an insert); n: an integer argument or result; val: the result; out: the
\* Option<CachedNickelValue> returned.
Ret(op, id, n, val, out) == [op |-> op, id |-> id, n |-> n, val |-> val, out |-> out]

\* A call a thread makes: the operation, its arguments (for an insert, the
\* Uuid and the timestamp taken before the lock), the register holding the
\* count read for += 1 / -= 1, the value and Option returned so far, and the
\* ones the same call returns in the sequential cache; n is the integer
\* argument of cleanup_old_entries and the integer len returns.
Call(op, id, json, source_code, type_info, t) ==
    [json |-> json, source_code |-> source_code, type_info |-> type_info,
     id |-> id, n |-> 0, t |-> t, val |-> "-", out |-> None, op |-> op, reg |-> 0,
     seqval |-> "-", seqout |-> None]

NoCall == Call("-", NoId, NoneV, NoneV, NoneV, 0)

\* No thread is in a call; nobody holds the Mutex.
InitConc ==
    /\ lock = NoThread
    /\ pc = [t \in Threads |-> "idle"]
    /\ cur = [t \in Threads |-> NoCall]
    /\ ncalls = [t \in Threads |-> 0]
    /\ seq = [store |-> store, poisoned |-> FALSE]

\* NickelPlugin::default(): an empty cache; the host holds no handle.
InitFresh ==
    /\ store = EmptyMap
    /\ poisoned = FALSE
    /\ overflow_checks \in BOOLEAN
    /\ issued = {}
    /\ now = 0
    /\ handles = [id \in Ids |-> 0]
    /\ balance = EmptyMap
    /\ ret = Ret("default", NoId, 0, "unit", None)
    /\ deleted = {}
    /\ copy = None
    /\ InitConc

\* A plugin that has been running: one entry was inserted and increment_ref
\* was then called I16Max - 2 times on it (the host holds its one handle).
InitLongRun ==
    /\ store = [insert_json(EmptyMap, "u1", "j1", 0) EXCEPT !["u1"].reference_count = I16Max - 1]
    /\ poisoned = FALSE
    /\ overflow_checks \in BOOLEAN
    /\ issued = {"u1"}
    /\ now = 0
    /\ handles = [id \in Ids |-> IF id = "u1" THEN 1 ELSE 0]
    /\ balance = [id \in {"u1"} |-> I16Max - 1]
    /\ ret = Ret("increment_ref", "u1", 0, "unit", None)
    /\ deleted = {}
    /\ copy = None
    /\ InitConc

Init == InitFresh \/ InitLongRun

(***************************************************************************)
(* Ghost bookkeeping of the calls made on an identifier.                   *)
(***************************************************************************)
\* The arithmetic count of an identifier after one more increment_ref (d = 1)
\* or decrement_ref (d = -1); it stops moving once it has reached 0.
Counted(b, id, d) ==
    IF id \in DOMAIN b /\ b[id] >= 1 THEN [b EXCEPT ![id] = b[id] + d] ELSE b

\* The identifier was removed by something other than decrement_ref.
Uncounted(b, gone) == [id \in DOMAIN b \ gone |-> b[id]]

BalanceWindow == (0 .. MaxRef) \cup (I16Max - MaxRef .. I16Max + MaxRef + 1)

\* Every step remembers the identifiers whose entries it deletes.
Deletions == deleted' = deleted \cup (DOMAIN store \ DOMAIN store')

\* self.inner.lock().unwrap() on a poisoned Mutex: the call panics.
LockPanicsN(op, n) ==
    /\ poisoned
    /\ ret' = Ret(op, NoId, n, "panic", None)
    /\ UNCHANGED <<store, poisoned, overflow_checks, now>>

LockPanics(op, id) ==
    /\ poisoned
    /\ ret' = Ret(op, id, 0, "panic", None)
    /\ UNCHANGED <<store, poisoned, overflow_checks, now>>

(***************************************************************************)
(* The bridge: NuNickelValue::cache_* insert an entry and hand the host a  *)
(* handle on it.                                                           *)
(***************************************************************************)
Cached(op, id, s) ==
    /\ issued' = issued \cup {id}
    /\ IF poisoned
       THEN /\ ret' = Ret(op, id, 0, "panic", None)
            /\ UNCHANGED <<store, handles, balance>>
       ELSE /\ store' = s
            /\ handles' = [handles EXCEPT ![id] = 1]
            /\ balance' = HashMapInsert(balance, id, 1)
            /\ ret' = Ret(op, id, 0, "ok", None)
    /\ UNCHANGED <<poisoned, overflow_checks, now>>
    /\ UNCHANGED conc
    /\ Deletions
    /\ UNCHANGED copy

cache_json_value(json_value) ==
    \E id \in NewV4 :
        Cached("insert_json", id, insert_json(store, id, json_value, now))

cache_nickel_term(source_code, json_representation, type_info) ==
    \E id \in NewV4 :
        Cached("insert_nickel_term", id,
               insert_nickel_term(store, id, source_code, json_representation,
                                  type_info, now))

cache_evaluated_value(json, source_code) ==
    \E id \in NewV4 :
        Cached("insert_evaluated", id, insert_evaluated(store, id, json, source_code, now))

(***************************************************************************)
(* Calls of the cache's other operations.                                  *)
(***************************************************************************)
\* A get that hands out the map's own entry and takes it out of the map.
Call_get_Taking(id) ==
    /\ \/ LockPanics("get", id)
       \/ /\ ~poisoned
          /\ ret' = Ret("get", id, 0, "ok", get(store, id))
          /\ store' = remove(store, id).store
          /\ UNCHANGED <<poisoned, overflow_checks, now>>
    /\ UNCHANGED <<issued, handles, balance>>
    /\ UNCHANGED conc
    /\ Deletions
    /\ UNCHANGED copy

Call_get(id) ==
    /\ \/ LockPanics("get", id)
       \/ /\ ~poisoned
          /\ ret' = Ret("get", id, 0, "ok", get(store, id))
          /\ UNCHANGED <<store, poisoned, overflow_checks, now>>
    /\ UNCHANGED <<issued, handles, balance>>
    /\ UNCHANGED conc
    /\ Deletions
    /\ UNCHANGED copy

Call_increment_ref(id) ==
    /\ balance' = Counted(balance, id, 1)
    /\ \A x \in DOMAIN balance' : balance'[x] \in BalanceWindow
    /\ \/ LockPanics("increment_ref", id)
       \/ /\ ~poisoned
          /\ LET r == increment_ref(store, id, overflow_checks) IN
             /\ store' = r.store
             /\ \A x \in DOMAIN store' : store'[x].reference_count \in RcWindow
             /\ poisoned' = r.panic
             /\ ret' = Ret("increment_ref", id, 0, IF r.panic THEN "panic" ELSE "unit", None)
          /\ UNCHANGED <<overflow_checks, now>>
    /\ UNCHANGED <<issued, handles>>
    /\ UNCHANGED conc
    /\ Deletions
    /\ UNCHANGED copy

Call_decrement_ref(id) ==
    /\ balance' = Counted(balance, id, -1)
    /\ \A x \in DOMAIN balance' : balance'[x] \in BalanceWindow
    /\ \/ LockPanics("decrement_ref", id)
       \/ /\ ~poisoned
          /\ LET r == decrement_ref(store, id, overflow_checks) IN
             /\ store' = r.store
             /\ \A x \in DOMAIN store' : store'[x].reference_count \in RcWindow
             /\ poisoned' = r.panic
             /\ ret' = Ret("decrement_ref", id, 0, r.val, None)
          /\ UNCHANGED <<overflow_checks, now>>
    /\ UNCHANGED <<issued, handles>>
    /\ UNCHANGED conc
    /\ Deletions
    /\ UNCHANGED copy

Call_remove(id) ==
    /\ \/ /\ LockPanics("remove", id)
          /\ UNCHANGED balance
       \/ /\ ~poisoned
          /\ LET r == remove(store, id) IN
             /\ store' = r.store
             /\ ret' = Ret("remove", id, 0, "ok", r.out)
          /\ balance' = Uncounted(balance, {id})
          /\ UNCHANGED <<poisoned, overflow_checks, now>>
    /\ UNCHANGED <<issued, handles>>
    /\ UNCHANGED conc
    /\ Deletions
    /\ UNCHANGED copy

Call_len ==
    /\ \/ LockPanicsN("len", 0)
       \/ /\ ~poisoned
          /\ ret' = Ret("len", NoId, len(store), "ok", None)
          /\ UNCHANGED <<store, poisoned, overflow_checks, now>>
    /\ UNCHANGED <<issued, handles, balance>>
    /\ UNCHANGED conc
    /\ Deletions
    /\ UNCHANGED copy

Call_is_empty ==
    /\ \/ LockPanicsN("is_empty", 0)
       \/ /\ ~poisoned
          /\ ret' = Ret("is_empty", NoId, 0, IF is_empty(store) THEN "true" ELSE "false", None)
          /\ UNCHANGED <<store, poisoned, overflow_checks, now>>
    /\ UNCHANGED <<issued, handles, balance>>
    /\ UNCHANGED conc
    /\ Deletions
    /\ UNCHANGED copy

\* ret.n is the argument; ret.out the entries the sweep deleted (it returns ()).
Call_cleanup_old_entries(max_age_hours) ==
    /\ \/ /\ LockPanicsN("cleanup_old_entries", max_age_hours)
          /\ UNCHANGED balance
       \/ /\ ~poisoned
          /\ store' = cleanup_old_entries(store, max_age_hours, now)
          /\ ret' = Ret("cleanup_old_entries", NoId, max_age_hours, "unit",
                        {store[id] : id \in DOMAIN store \ DOMAIN store'})
          /\ balance' = Uncounted(balance, DOMAIN store \ DOMAIN store')
          /\ UNCHANGED <<poisoned, overflow_checks, now>>
    /\ UNCHANGED <<issued, handles>>
    /\ UNCHANGED conc
    /\ Deletions
    /\ UNCHANGED copy

(***************************************************************************)
(* The host: it clones and drops the handles it holds.                     *)
(***************************************************************************)
\* CustomValue::clone_value: self.clone(); the cache is not told.
clone_value(id) ==
    /\ handles[id] > 0
    /\ handles[id] < MaxHandles
    /\ handles' = [handles EXCEPT ![id] = handles[id] + 1]
    /\ ret' = Ret("clone_value", id, 0, "ok", None)
    /\ UNCHANGED <<store, poisoned, overflow_checks, issued, now, balance>>
    /\ UNCHANGED conc
    /\ Deletions
    /\ UNCHANGED copy

\* Plugin::custom_value_dropped for one of the host's handle instances
\* (notify_plugin_on_drop is true): self.cache.remove(&custom_value.id).
custom_value_dropped(id) ==
    /\ handles[id] > 0
    /\ handles' = [handles EXCEPT ![id] = handles[id] - 1]
    /\ \/ /\ LockPanics("custom_value_dropped", id)
          /\ UNCHANGED balance
       \/ /\ ~poisoned
          /\ store' = remove(store, id).store
          /\ ret' = Ret("custom_value_dropped", id, 0, "ok", None)
          /\ balance' = Uncounted(balance, {id})
          /\ UNCHANGED <<poisoned, overflow_checks, now>>
    /\ UNCHANGED issued
    /\ UNCHANGED conc
    /\ Deletions
    /\ UNCHANGED copy

\* Plugin::custom_value_dropped for a custom value of another type: the
\* downcast gives None and the cache is not touched.
custom_value_dropped_foreign ==
    /\ ret' = Ret("custom_value_dropped", NoId, 0, "ok", None)
    /\ UNCHANGED <<store, poisoned, overflow_checks, issued, now, handles, balance>>
    /\ UNCHANGED conc
    /\ Deletions
    /\ UNCHANGED copy

\* An hour passes.
Tick ==
    /\ now < MaxTime
    /\ now' = now + 1
    /\ UNCHANGED <<store, poisoned, overflow_checks, issued, handles, balance, ret>>
    /\ UNCHANGED conc
    /\ Deletions
    /\ UNCHANGED copy

(***************************************************************************)
(* A caller of get keeps the entry it was given and may change it: the     *)
(* fields of CachedNickelValue are public.                                 *)
(***************************************************************************)
\* let cached_value = cache.get(&id): the caller owns what get returned.
keep_copy ==
    /\ ret.op = "get" /\ ret.val = "ok"
    /\ copy # ret.out
    /\ copy' = ret.out
    /\ UNCHANGED <<store, poisoned, overflow_checks, issued, now, handles, balance, ret>>
    /\ UNCHANGED conc
    /\ Deletions

\* The caller writes to the copy it owns.
edit_copy ==
    /\ \E e \in copy : \E n \in {0, e.reference_count + 1} :
          /\ n # e.reference_count
          /\ n \in RcWindow
          /\ copy' = Some([e EXCEPT !.reference_count = n])
    /\ UNCHANGED <<store, poisoned, overflow_checks, issued, now, handles, balance, ret>>
    /\ UNCHANGED conc
    /\ Deletions

Bridge ==
    \/ \E j \in Jsons : cache_json_value(j)
    \/ \E src \in Sources, j \in Jsons \cup {NoneV}, ty \in TypeInfos :
           cache_nickel_term(src, j, ty)
    \/ \E j \in Jsons, src \in Sources \cup {NoneV} : cache_evaluated_value(j, src)

Host ==
    \/ \E id \in Ids : clone_value(id)
    \/ \E id \in Ids : custom_value_dropped(id)
    \/ custom_value_dropped_foreign

MaxAges == -1 .. MaxAge

\* The cache as its callers see it.
Next ==
    \/ Bridge
    \/ \E id \in Ids : Call_get(id)
    \/ \E id \in Ids : Call_increment_ref(id)
    \/ \E id \in Ids : Call_decrement_ref(id)
    \/ \E id \in Ids : Call_remove(id)
    \/ Call_len
    \/ Call_is_empty
    \/ \E a \in MaxAges : Call_cleanup_old_entries(a)
    \/ Tick

Spec == Init /\ [][Next]_vars

\* The plugin as the host drives it: commands cache values, the host clones
\* and drops the handles.
NextHost == Bridge \/ Host

SpecHost == InitFresh /\ [][NextHost]_vars

\* The cache's callers and the host together.
NextPlugin == Next \/ Host

SpecPlugin == Init /\ [][NextPlugin]_vars

\* The calls that read and change entries, one caller keeping what get gave it.
NextCopy ==
    \/ Bridge
    \/ \E id \in Ids : Call_get(id)
    \/ \E id \in Ids : Call_increment_ref(id)
    \/ \E id \in Ids : Call_decrement_ref(id)
    \/ \E id \in Ids : Call_remove(id)
    \/ \E a \in MaxAges : Call_cleanup_old_entries(a)
    \/ keep_copy
    \/ edit_copy

SpecCopy == Init /\ [][NextCopy]_vars

(***************************************************************************)
(* The bridge's accessors: a command resolves a value the host passed in.  *)
(***************************************************************************)
\* A value that is not a custom value, and a custom value of another type.
NotCustom == "not-custom"
ForeignCustom == "foreign-custom"
\* The values a command can be handed: a handle carries its identifier.
Values == Ids \cup {NotCustom, ForeignCustom}

TypeMismatch == "Type mismatch"
NotFound == "Cached Nickel value not found"

\* CachedNickelValue::as_json
as_json(cached_value) ==
    CASE cached_value.value.tag = "JsonValue" -> Some(cached_value.value.json)
      [] cached_value.value.tag = "EvaluatedValue" -> Some(cached_value.value.json)
      [] cached_value.value.tag = "SerializedNickelTerm"
             /\ cached_value.value.json # NoneV -> Some(cached_value.value.json)
      [] OTHER -> None

\* An accessor that takes the type descriptor of a term for its source text.
as_source_code_TypeInfo(cached_value) ==
    CASE cached_value.value.tag = "SerializedNickelTerm" ->
             Some(cached_value.value.type_info)
      [] cached_value.value.tag = "EvaluatedValue"
             /\ cached_value.value.source_code # NoneV ->
             Some(cached_value.value.source_code)
      [] OTHER -> None

\* CachedNickelValue::as_source_code
as_source_code(cached_value) ==
    CASE cached_value.value.tag = "SerializedNickelTerm" ->
             Some(cached_value.value.source_code)
      [] cached_value.value.tag = "EvaluatedValue"
             /\ cached_value.value.source_code # NoneV ->
             Some(cached_value.value.source_code)
      [] OTHER -> None

\* CachedNickelValue::object_type
object_type(cached_value) ==
    CASE cached_value.value.tag = "JsonValue" -> "JsonValue"
      [] cached_value.value.tag = "SerializedNickelTerm" -> "NickelTerm"
      [] cached_value.value.tag = "EvaluatedValue" -> "EvaluatedValue"

\* Result<Option<T>, LabeledError>: val is "Ok" or the error's message.
Ok(out) == [val |-> "Ok", out |-> out]
Err(msg) == [val |-> msg, out |-> None]

\* The accessors as functions of the map: value.as_custom_value() and the
\* downcast give Ok(None) for anything that is not a handle.
try_get_cached_json(s, value) ==
    IF value \notin Ids THEN Ok(None)
    ELSE IF get(s, value) = None THEN Err(NotFound)
    ELSE LET cached_value == CHOOSE e \in get(s, value) : TRUE IN
         IF as_json(cached_value) # None THEN Ok(as_json(cached_value))
         ELSE Err(TypeMismatch)

try_get_cached_source_code(s, value) ==
    IF value \notin Ids THEN Ok(None)
    ELSE IF get(s, value) = None THEN Err(NotFound)
    ELSE LET cached_value == CHOOSE e \in get(s, value) : TRUE IN
         IF as_source_code(cached_value) # None THEN Ok(as_source_code(cached_value))
         ELSE Err(TypeMismatch)

try_get_cached_value(s, value) ==
    IF value \notin Ids THEN Ok(None)
    ELSE IF get(s, value) = None THEN Err(NotFound)
    ELSE Ok(get(s, value))

\* The Option an accessor returns, as ret.out records it: a JSON value and a
\* source text are labelled with what they are.
Returned_out(op, out) ==
    CASE op = "try_get_cached_json" -> {[json |-> x] : x \in out}
      [] op = "try_get_cached_source_code" -> {[source_code |-> x] : x \in out}
      [] OTHER -> out

\* A call of an accessor: plugin.cache.get locks the Mutex, for a handle only.
Resolved(op, value, r) ==
    /\ IF poisoned /\ value \in Ids
       THEN ret' = Ret(op, value, 0, "panic", None)
       ELSE ret' = Ret(op, value, 0, r.val, Returned_out(op, r.out))
    /\ UNCHANGED <<store, poisoned, overflow_checks, issued, now, handles, balance>>
    /\ UNCHANGED conc
    /\ Deletions
    /\ UNCHANGED copy

Call_try_get_cached_json(value) ==
    Resolved("try_get_cached_json", value, try_get_cached_json(store, value))

Call_try_get_cached_source_code(value) ==
    Resolved("try_get_cached_source_code", value, try_get_cached_source_code(store, value))

Call_try_get_cached_value(value) ==
    Resolved("try_get_cached_value", value, try_get_cached_value(store, value))

Resolve ==
    \E value \in Values :
        \/ Call_try_get_cached_json(value)
        \/ Call_try_get_cached_source_code(value)
        \/ Call_try_get_cached_value(value)

(***************************************************************************)
(* A handle materialized for display: NuNickelValueCustomValue is the      *)
(* identifier, the logical type name and, optionally, entry data.          *)
(***************************************************************************)
TypeNames == {"JsonValue", "NickelTerm", "EvaluatedValue"}

NuNickelValueCustomValue(id, type_name, cached_value) ==
    [id |-> id, type_name |-> type_name, cached_value |-> cached_value]

\* Uuid::to_string and DateTime::to_rfc3339 give text, not the value itself.
to_string(uuid) == <<"uuid", uuid>>
to_rfc3339(created) == <<"rfc3339", created>>

\* reference_count as i64
as_i64(n) == n

\* A display record that always carries the cached field.
to_base_value_AlwaysCached(self) ==
    IF self.cached_value # None
    THEN LET cached_value == CHOOSE e \in self.cached_value : TRUE IN
         [id |-> to_string(self.id), type |-> self.type_name,
          object_type |-> object_type(cached_value),
          reference_count |-> as_i64(cached_value.reference_count),
          created |-> to_rfc3339(cached_value.created),
          cached |-> TRUE]
    ELSE [id |-> to_string(self.id), type |-> self.type_name, cached |-> FALSE]

\* CustomValue::to_base_value: the record's fields in the order pushed.
to_base_value(self) ==
    IF self.cached_value # None
    THEN LET cached_value == CHOOSE e \in self.cached_value : TRUE IN
         [id |-> to_string(self.id), type |-> self.type_name,
          object_type |-> object_type(cached_value),
          reference_count |-> as_i64(cached_value.reference_count),
          created |-> to_rfc3339(cached_value.created)]
    ELSE [id |-> to_string(self.id), type |-> self.type_name, cached |-> FALSE]

\* The host displays a handle: one a caching call returned (no entry data),
\* or one built with_cached_value around an entry read from the cache.
Call_to_base_value(id, type_name, cached_value) ==
    /\ ret' = Ret("to_base_value", id, 0, "Ok",
                  Some([self |-> NuNickelValueCustomValue(id, type_name, cached_value),
                        record |-> to_base_value(
                            NuNickelValueCustomValue(id, type_name, cached_value))]))
    /\ UNCHANGED <<store, poisoned, overflow_checks, issued, now, handles, balance>>
    /\ UNCHANGED conc
    /\ Deletions
    /\ UNCHANGED copy

Display ==
    \E id \in issued, type_name \in TypeNames :
        \E cached_value \in {None} \cup {Some(store[x]) : x \in DOMAIN store} :
            Call_to_base_value(id, type_name, cached_value)

\* Commands cache values and resolve the handles they are handed, while the
\* cache's other callers change and remove entries.
NextBridge ==
    \/ Bridge
    \/ Resolve
    \/ Display
    \/ \E id \in Ids : Call_increment_ref(id)
    \/ \E id \in Ids : Call_decrement_ref(id)
    \/ \E id \in Ids : Call_remove(id)

SpecBridge == Init /\ [][NextBridge]_vars

(***************************************************************************)
(* The nickel eval command (NickelEval::run, eval_nickel_code).  The        *)
(* evaluator is a black box: a program is described by the stages that     *)
(* succeed on it and by the formats its value serializes to.               *)
(***************************************************************************)
\* The stages in the opposite order of parse and typecheck.
Stages_TypecheckFirst == <<"new_from_source", "typecheck", "parse", "eval_full">>

\* The calls eval_nickel_code makes on the program, in the order of the code.
Stages == <<"new_from_source", "parse", "typecheck", "eval_full">>

\* The message each stage's map_err puts in front of the evaluator's error.
StageLabel(stage) ==
    CASE stage = "new_from_source" -> "Failed to create program"
      [] stage = "parse" -> "Parse error"
      [] stage = "typecheck" -> "Type error"
      [] stage = "eval_full" -> "Evaluation error"

Formats == {"json", "yaml", "toml"}

SerializeLabel(format) ==
    CASE format = "json" -> "JSON serialization error"
      [] format = "yaml" -> "YAML serialization error"
      [] format = "toml" -> "TOML serialization error"

\* The programs: which stages succeed and, for a program that evaluates to a
\* value, which formats that value serializes to.
Programs ==
    {program \in [stage_ok : [{Stages[i] : i \in 1 .. Len(Stages)} -> BOOLEAN],
                  serialize_ok : [Formats -> BOOLEAN]] :
        (\E i \in 1 .. Len(Stages) : ~program.stage_ok[Stages[i]])
            => \A format \in Formats : program.serialize_ok[format]}

\* The switches of the call.
Flags == [Formats -> BOOLEAN]

\* What a run gives: the stages and serializers called, in order, and the
\* Result: val is "Ok" or the error's label, kind says what the value is.
Outcome(ran, val, kind) == [ran |-> ran, val |-> val, kind |-> kind]

\* The chain of stage()? calls from stage i on: the first Err returns.
RECURSIVE RunStages(_, _, _)
RunStages(program, i, ran) ==
    IF i > Len(Stages) THEN Outcome(ran, "Ok", "term")
    ELSE IF program.stage_ok[Stages[i]]
         THEN RunStages(program, i + 1, Append(ran, Stages[i]))
         ELSE Outcome(Append(ran, Stages[i]), StageLabel(Stages[i]), "none")

\* serialize::to_json / to_yaml / to_toml of the evaluated term.
Serialize(program, format, ran) ==
    IF program.serialize_ok[format]
    THEN Outcome(Append(ran, format), "Ok", format)
    ELSE Outcome(Append(ran, format), SerializeLabel(format), "none")

\* An output choice that looks at the yaml switch before the json switch.
eval_nickel_code_YamlFirst(program, flags) ==
    LET evaluated == RunStages(program, 1, <<>>) IN
    IF evaluated.val # "Ok" THEN evaluated
    ELSE IF flags["yaml"] THEN Serialize(program, "yaml", evaluated.ran)
    ELSE IF flags["json"] THEN Serialize(program, "json", evaluated.ran)
    ELSE IF flags["toml"] THEN Serialize(program, "toml", evaluated.ran)
    ELSE Outcome(Append(evaluated.ran, "nickel_to_nu_value"), "Ok", "value")

\* The ? chain of the four stages, then the if / else if on the switches.
eval_nickel_code(program, flags) ==
    LET evaluated == RunStages(program, 1, <<>>) IN
    IF evaluated.val # "Ok" THEN evaluated
    ELSE IF flags["json"] THEN Serialize(program, "json", evaluated.ran)
    ELSE IF flags["yaml"] THEN Serialize(program, "yaml", evaluated.ran)
    ELSE IF flags["toml"] THEN Serialize(program, "toml", evaluated.ran)
    ELSE Outcome(Append(evaluated.ran, "nickel_to_nu_value"), "Ok", "value")

\* Where the source comes from: a path argument (readable or not), or the
\* pipeline input (a string, nothing, or something else).
Inputs == {"path", "unreadable path", "string", "empty", "other"}

NickelEval_run(input, program, flags) ==
    CASE input = "unreadable path" -> Outcome(<<>>, "Failed to read file", "none")
      [] input = "empty" -> Outcome(<<>>, "No input provided", "none")
      [] input = "other" -> Outcome(<<>>, "Invalid input type", "none")
      [] OTHER -> eval_nickel_code(program, flags)

\* A call of nickel eval; ret.out records the call and what it gave.  The
\* command does not use the cache.
nickel_eval(input, program, flags) ==
    LET r == NickelEval_run(input, program, flags) IN
    /\ ret' = Ret("nickel eval", NoId, 0, r.val,
                  Some([input |-> input, program |-> program, flags |-> flags,
                        ran |-> r.ran, kind |-> r.kind]))
    /\ UNCHANGED <<store, poisoned, overflow_checks, issued, now, handles, balance>>
    /\ UNCHANGED conc
    /\ Deletions
    /\ UNCHANGED copy

\* The program and the switches play no part when no source is obtained.
NoProgram == [stage_ok |-> [stage \in {Stages[i] : i \in 1 .. Len(Stages)} |-> TRUE],
              serialize_ok |-> [format \in Formats |-> TRUE]]
NoFlags == [format \in Formats |-> FALSE]

NextCommands ==
    \/ \E input \in {"path", "string"}, program \in Programs, flags \in Flags :
           nickel_eval(input, program, flags)
    \/ \E input \in Inputs \ {"path", "string"} : nickel_eval(input, NoProgram, NoFlags)

SpecCommands == InitFresh /\ [][NextCommands]_vars

(***************************************************************************)
(* The nickel parse command (NickelParse::run, parse_nickel_code).  The     *)
(* parsed term is handed to the Bridge, which caches it and returns the    *)
(* Handle the command gives to the host.                                   *)
(***************************************************************************)
\* A parse command that hands the term to the Bridge as soon as the program
\* has been created, whether or not it parses.
NickelParse_run_CachingUnparsed(input, program) ==
    CASE input = "unreadable path" -> Outcome(<<>>, "Failed to read file", "none")
      [] input = "empty" -> Outcome(<<>>, "No input provided", "none")
      [] input = "other" -> Outcome(<<>>, "Invalid input type", "none")
      [] OTHER ->
           IF ~program.stage_ok["new_from_source"]
           THEN Outcome(<<"new_from_source">>, StageLabel("new_from_source"), "none")
           ELSE Outcome(<<"new_from_source", "parse", "cache_and_to_value">>, "Ok", "handle")

\* run obtains the source or returns; parse_nickel_code is new_from_source()?,
\* parse()?, then cache_and_to_value.
NickelParse_run(input, program) ==
    CASE input = "unreadable path" -> Outcome(<<>>, "Failed to read file", "none")
      [] input = "empty" -> Outcome(<<>>, "No input provided", "none")
      [] input = "other" -> Outcome(<<>>, "Invalid input type", "none")
      [] OTHER ->
           IF ~program.stage_ok["new_from_source"]
           THEN Outcome(<<"new_from_source">>, StageLabel("new_from_source"), "none")
           ELSE IF ~program.stage_ok["parse"]
           THEN Outcome(<<"new_from_source", "parse">>, StageLabel("parse"), "none")
           ELSE Outcome(<<"new_from_source", "parse", "cache_and_to_value">>, "Ok", "handle")

\* What ret.out records of a call of nickel parse.
Parsed(input, program, r) ==
    Some([input |-> input, program |-> program, ran |-> r.ran, kind |-> r.kind])

\* NuNickelValue::cache_and_to_value: the Bridge caches the term as a new
\* entry and returns a Handle on it.
cache_and_to_value(source_code, json_representation, type_info, out) ==
    \E id \in NewV4 :
        /\ issued' = issued \cup {id}
        /\ IF poisoned
           THEN /\ ret' = Ret("nickel parse", id, 0, "panic", out)
                /\ UNCHANGED <<store, handles, balance>>
           ELSE /\ store' = insert_nickel_term(store, id, source_code,
                                               json_representation, type_info, now)
                /\ handles' = [handles EXCEPT ![id] = 1]
                /\ balance' = HashMapInsert(balance, id, 1)
                /\ ret' = Ret("nickel parse", id, 0, "Ok", out)

\* A call of nickel parse.
nickel_parse(input, program) ==
    LET r == NickelParse_run(input, program) IN
    /\ IF r.kind = "handle"
       THEN \E src \in Sources, j \in Jsons \cup {NoneV}, ty \in TypeInfos :
                cache_and_to_value(src, j, ty, Parsed(input, program, r))
       ELSE /\ ret' = Ret("nickel parse", NoId, 0, r.val, Parsed(input, program, r))
            /\ UNCHANGED <<store, issued, handles, balance>>
    /\ UNCHANGED <<poisoned, overflow_checks, now>>
    /\ UNCHANGED conc
    /\ Deletions
    /\ UNCHANGED copy

\* The programs given to nickel parse: whatever each stage would do, their
\* value serializes.
ParsePrograms == {program \in Programs : \A format \in Formats : program.serialize_ok[format]}

NextParse ==
    \/ \E input \in {"path", "string"}, program \in ParsePrograms : nickel_parse(input, program)
    \/ \E input \in Inputs \ {"path", "string"} : nickel_parse(input, NoProgram)
    \/ \E id \in Ids : Call_increment_ref(id)
    \/ \E id \in Ids : Call_decrement_ref(id)
    \/ Tick

SpecParse == Init /\ [][NextParse]_vars

(***************************************************************************)
(* Concurrent callers.  Each call takes the Mutex (self.inner.lock()),     *)
(* runs its body on the map and releases the Mutex when the guard goes out *)
(* of scope.  reference_count += 1 and -= 1 are a read and a write of the  *)
(* field; only the Mutex keeps two of them from interleaving.              *)
(***************************************************************************)
\* A Mutex that lets a thread in while another one holds it.
LockFree_Always == TRUE

\* Mutex::lock blocks until no thread holds the Mutex.
LockFree == lock = NoThread

\* What a call does to the cache when nothing runs beside it.
SeqApply(c, q) ==
    IF q.poisoned
    THEN [store |-> q.store, poisoned |-> TRUE, val |-> "panic", out |-> None]
    ELSE CASE c.op = "insert_json" ->
                [store |-> insert_json(q.store, c.id, c.json, c.t),
                 poisoned |-> FALSE, val |-> "ok", out |-> None]
           [] c.op = "insert_nickel_term" ->
                [store |-> insert_nickel_term(q.store, c.id, c.source_code, c.json,
                                              c.type_info, c.t),
                 poisoned |-> FALSE, val |-> "ok", out |-> None]
           [] c.op = "insert_evaluated" ->
                [store |-> insert_evaluated(q.store, c.id, c.json, c.source_code, c.t),
                 poisoned |-> FALSE, val |-> "ok", out |-> None]
           [] c.op = "get" ->
                [store |-> q.store, poisoned |-> FALSE, val |-> "ok",
                 out |-> get(q.store, c.id)]
           [] c.op = "increment_ref" ->
                LET r == increment_ref(q.store, c.id, overflow_checks) IN
                [store |-> r.store, poisoned |-> r.panic,
                 val |-> IF r.panic THEN "panic" ELSE "unit", out |-> None]
           [] c.op = "decrement_ref" ->
                LET r == decrement_ref(q.store, c.id, overflow_checks) IN
                [store |-> r.store, poisoned |-> r.panic, val |-> r.val, out |-> None]
           [] c.op = "remove" ->
                LET r == remove(q.store, c.id) IN
                [store |-> r.store, poisoned |-> FALSE, val |-> "ok", out |-> r.out]
           [] c.op = "len" ->
                [store |-> q.store, poisoned |-> FALSE, val |-> "ok", out |-> None]
           [] c.op = "is_empty" ->
                [store |-> q.store, poisoned |-> FALSE,
                 val |-> IF is_empty(q.store) THEN "true" ELSE "false", out |-> None]
           [] c.op = "cleanup_old_entries" ->
                [store |-> cleanup_old_entries(q.store, c.n, now),
                 poisoned |-> FALSE, val |-> "unit", out |-> None]

\* A thread enters a call.  An insert draws its Uuid and reads the clock
\* before it asks for the lock.
Begin(t, c) ==
    /\ pc[t] = "idle"
    /\ ncalls[t] < MaxCalls
    /\ cur' = [cur EXCEPT ![t] = c]
    /\ pc' = [pc EXCEPT ![t] = "lock"]
    /\ issued' = IF c.op \in {"insert_json", "insert_nickel_term", "insert_evaluated"}
                 THEN issued \cup {c.id} ELSE issued
    /\ UNCHANGED <<store, poisoned, overflow_checks, now, handles, balance, ret,
                   lock, ncalls, seq>>
    /\ Deletions
    /\ UNCHANGED copy

BeginInsert(t) ==
    \E id \in NewV4 :
        \/ \E j \in Jsons : Begin(t, Call("insert_json", id, j, NoneV, NoneV, now))
        \/ \E src \in Sources, ty \in TypeInfos :
               Begin(t, Call("insert_nickel_term", id, NoneV, src, ty, now))
        \/ \E j \in Jsons : Begin(t, Call("insert_evaluated", id, j, NoneV, NoneV, now))

BeginGet(t) == \E id \in Ids : Begin(t, Call("get", id, NoneV, NoneV, NoneV, 0))

BeginIncrement(t) ==
    \E id \in Ids : Begin(t, Call("increment_ref", id, NoneV, NoneV, NoneV, 0))

BeginDecrement(t) ==
    \E id \in Ids : Begin(t, Call("decrement_ref", id, NoneV, NoneV, NoneV, 0))

BeginRemove(t) == \E id \in Ids : Begin(t, Call("remove", id, NoneV, NoneV, NoneV, 0))

BeginLen(t) == Begin(t, Call("len", NoId, NoneV, NoneV, NoneV, 0))

BeginIsEmpty(t) == Begin(t, Call("is_empty", NoId, NoneV, NoneV, NoneV, 0))

BeginCleanup(t) ==
    Begin(t, [Call("cleanup_old_entries", NoId, NoneV, NoneV, NoneV, 0) EXCEPT !.n = 0])

\* One insert stands for the three: they differ in the value they build
\* before they ask for the lock, and all run cache.insert(id, cached_value)
\* under it.
BeginInsertJson(t) ==
    \E id \in NewV4 : Begin(t, Call("insert_json", id, "j1", NoneV, NoneV, now))

\* The call is over: the thread is idle again.
Returned(t) ==
    /\ pc' = [pc EXCEPT ![t] = "idle"]
    /\ cur' = [cur EXCEPT ![t] = NoCall]
    /\ ncalls' = [ncalls EXCEPT ![t] = ncalls[t] + 1]

\* self.inner.lock().unwrap(): the thread gets the Mutex once it is free; on
\* a poisoned Mutex unwrap panics and the guard is dropped at once.
Acquire(t) ==
    /\ pc[t] = "lock"
    /\ LockFree
    /\ LET r == SeqApply(cur[t], seq) IN
       /\ seq' = [store |-> r.store, poisoned |-> r.poisoned]
       /\ IF poisoned
          THEN Returned(t) /\ UNCHANGED lock
          ELSE /\ lock' = t
               /\ pc' = [pc EXCEPT ![t] = "body"]
               /\ cur' = [cur EXCEPT ![t].seqval = r.val, ![t].seqout = r.out]
               /\ UNCHANGED ncalls
    /\ UNCHANGED <<store, poisoned, overflow_checks, issued, now, handles, balance, ret>>
    /\ Deletions
    /\ UNCHANGED copy

\* cache.insert(id, cached_value)
InsertBody(t) ==
    /\ pc[t] = "body"
    /\ cur[t].op \in {"insert_json", "insert_nickel_term", "insert_evaluated"}
    /\ store' = SeqApply(cur[t], [store |-> store, poisoned |-> FALSE]).store
    /\ cur' = [cur EXCEPT ![t].val = "ok"]
    /\ pc' = [pc EXCEPT ![t] = "unlock"]
    /\ UNCHANGED <<poisoned, overflow_checks, issued, now, handles, balance, ret,
                   lock, ncalls, seq>>
    /\ Deletions
    /\ UNCHANGED copy

\* cache.get(id).cloned()
GetBody(t) ==
    /\ pc[t] = "body"
    /\ cur[t].op = "get"
    /\ cur' = [cur EXCEPT ![t].val = "ok", ![t].out = get(store, cur[t].id)]
    /\ pc' = [pc EXCEPT ![t] = "unlock"]
    /\ UNCHANGED <<store, poisoned, overflow_checks, issued, now, handles, balance, ret,
                   lock, ncalls, seq>>
    /\ Deletions
    /\ UNCHANGED copy

\* cache.remove(id)
RemoveBody(t) ==
    /\ pc[t] = "body"
    /\ cur[t].op = "remove"
    /\ store' = remove(store, cur[t].id).store
    /\ cur' = [cur EXCEPT ![t].val = "ok", ![t].out = remove(store, cur[t].id).out]
    /\ pc' = [pc EXCEPT ![t] = "unlock"]
    /\ UNCHANGED <<poisoned, overflow_checks, issued, now, handles, balance, ret,
                   lock, ncalls, seq>>
    /\ Deletions
    /\ UNCHANGED copy

\* cache.len() and cache.is_empty()
SizeBody(t) ==
    /\ pc[t] = "body"
    /\ cur[t].op \in {"len", "is_empty"}
    /\ cur' = IF cur[t].op = "len"
              THEN [cur EXCEPT ![t].val = "ok", ![t].n = len(store)]
              ELSE [cur EXCEPT ![t].val = IF is_empty(store) THEN "true" ELSE "false"]
    /\ pc' = [pc EXCEPT ![t] = "unlock"]
    /\ UNCHANGED <<store, poisoned, overflow_checks, issued, now, handles, balance, ret,
                   lock, ncalls, seq>>
    /\ Deletions
    /\ UNCHANGED copy

\* The clock is read with the lock held; cache.retain(..) runs to its end.
CleanupBody(t) ==
    /\ pc[t] = "body"
    /\ cur[t].op = "cleanup_old_entries"
    /\ store' = cleanup_old_entries(store, cur[t].n, now)
    /\ cur' = [cur EXCEPT ![t].val = "unit"]
    /\ pc' = [pc EXCEPT ![t] = "unlock"]
    /\ UNCHANGED <<poisoned, overflow_checks, issued, now, handles, balance, ret,
                   lock, ncalls, seq>>
    /\ Deletions
    /\ UNCHANGED copy

\* if let Some(cached_value) = cache.get_mut(id): the count is read.
LoadCount(t) ==
    /\ pc[t] = "body"
    /\ cur[t].op \in {"increment_ref", "decrement_ref"}
    /\ IF cur[t].id \in DOMAIN store
       THEN /\ cur' = [cur EXCEPT ![t].reg = store[cur[t].id].reference_count]
            /\ pc' = [pc EXCEPT ![t] = "store"]
       ELSE /\ cur' = [cur EXCEPT
                          ![t].val = IF cur[t].op = "decrement_ref" THEN "false" ELSE "unit"]
            /\ pc' = [pc EXCEPT ![t] = "unlock"]
    /\ UNCHANGED <<store, poisoned, overflow_checks, issued, now, handles, balance, ret,
                   lock, ncalls, seq>>
    /\ Deletions
    /\ UNCHANGED copy

\* The count read, plus or minus one, is written back.  An overflow panics in
\* a build that checks for it: the guard is dropped by a panicking thread and
\* the Mutex is poisoned.
StoreCount(t) ==
    /\ pc[t] = "store"
    /\ LET id == cur[t].id
           n == cur[t].reg + (IF cur[t].op = "increment_ref" THEN 1 ELSE -1)
       IN IF I16Overflows(n) /\ overflow_checks
          THEN /\ poisoned' = TRUE
               /\ lock' = IF lock = t THEN NoThread ELSE lock
               /\ Returned(t)
               /\ UNCHANGED store
          ELSE /\ store' = IF id \in DOMAIN store
                           THEN [store EXCEPT ![id].reference_count = I16Wrap(n)]
                           ELSE store
               /\ IF cur[t].op = "increment_ref"
                  THEN /\ cur' = [cur EXCEPT ![t].val = "unit"]
                       /\ pc' = [pc EXCEPT ![t] = "unlock"]
                  ELSE /\ pc' = [pc EXCEPT ![t] = "check"]
                       /\ UNCHANGED cur
               /\ UNCHANGED <<poisoned, lock, ncalls>>
    /\ UNCHANGED <<overflow_checks, issued, now, handles, balance, ret, seq>>
    /\ Deletions
    /\ UNCHANGED copy

\* if cached_value.reference_count <= 0 { cache.remove(id); return true } false
CheckCount(t) ==
    /\ pc[t] = "check"
    /\ LET id == cur[t].id IN
       IF id \in DOMAIN store /\ store[id].reference_count <= 0
       THEN /\ store' = HashMapRemove(store, id)
            /\ cur' = [cur EXCEPT ![t].val = "true"]
       ELSE /\ cur' = [cur EXCEPT ![t].val = "false"]
            /\ UNCHANGED store
    /\ pc' = [pc EXCEPT ![t] = "unlock"]
    /\ UNCHANGED <<poisoned, overflow_checks, issued, now, handles, balance, ret,
                   lock, ncalls, seq>>
    /\ Deletions
    /\ UNCHANGED copy

\* A call that returns without giving the Mutex back.
Release_KeepingLock(t) ==
    /\ pc[t] = "unlock"
    /\ Returned(t)
    /\ UNCHANGED <<store, poisoned, overflow_checks, issued, now, handles, balance, ret,
                   seq, lock>>
    /\ Deletions
    /\ UNCHANGED copy

\* The guard goes out of scope: the Mutex is released and the call returns.
Release(t) ==
    /\ pc[t] = "unlock"
    /\ lock' = IF lock = t THEN NoThread ELSE lock
    /\ Returned(t)
    /\ UNCHANGED <<store, poisoned, overflow_checks, issued, now, handles, balance, ret,
                   seq>>
    /\ Deletions
    /\ UNCHANGED copy

NextConc ==
    \E t \in Threads :
        \/ BeginInsert(t)
        \/ BeginGet(t)
        \/ BeginIncrement(t)
        \/ BeginDecrement(t)
        \/ Acquire(t)
        \/ InsertBody(t)
        \/ GetBody(t)
        \/ LoadCount(t)
        \/ StoreCount(t)
        \/ CheckCount(t)
        \/ Release(t)

SpecConc == Init /\ [][NextConc]_vars

\* What a thread does once it has asked for the lock and has it: the rest of
\* its call.
Body(t) ==
    \/ InsertBody(t)
    \/ GetBody(t)
    \/ RemoveBody(t)
    \/ SizeBody(t)
    \/ CleanupBody(t)
    \/ LoadCount(t)
    \/ StoreCount(t)
    \/ CheckCount(t)
    \/ Release(t)

\* Every operation of the cache, called by several threads at once.
NextLive ==
    \E t \in Threads :
        \/ BeginInsertJson(t)
        \/ BeginGet(t)
        \/ BeginIncrement(t)
        \/ BeginDecrement(t)
        \/ BeginRemove(t)
        \/ BeginLen(t)
        \/ BeginIsEmpty(t)
        \/ BeginCleanup(t)
        \/ Acquire(t)
        \/ Body(t)

\* A running thread keeps running, and a thread that asks for the Mutex gets
\* it if the Mutex is free again and again.
Fairness == \A t \in Threads : WF_vars(Body(t)) /\ SF_vars(Acquire(t))

SpecLive == Init /\ [][NextLive]_vars /\ Fairness

(***************************************************************************)
(* The claims.                                                             *)
(***************************************************************************)
Present(id) == id \in DOMAIN store
PresentNext(id) == id \in DOMAIN store'
Age(e) == now - e.created
OthersUntouched(id) ==
    \A x \in DOMAIN store \ {id} : x \in DOMAIN store' /\ store'[x] = store[x]
InsertOps == {"insert_json", "insert_nickel_term", "insert_evaluated"}

\* C1: after any sequence of cache inserts, host clones of a handle and drop
\* notifications, an identifier that a live host-side handle still carries is
\* present in the store.
C1_EntryKeptWhileHandleLive ==
    \A id \in Ids : handles[id] > 0 => Present(id)

\* C2: for an identifier on which only increment_ref (N times) and
\* decrement_ref (M times) were called since its insert: while M <= N it is
\* present, once M = 1 + N it is absent, and a further decrement_ref on it
\* returns false and leaves the store as it is.
C2_PairedCounts ==
    /\ [](\A id \in DOMAIN balance :
            /\ balance[id] >= 1 => Present(id)
            /\ balance[id] <= 0 => ~Present(id))
    /\ [][\A id \in DOMAIN balance :
            (balance[id] <= 0 /\ Call_decrement_ref(id))
                => (ret'.val = "false" /\ store' = store)]_vars

\* C3: decrement_ref(id) on a present entry lowers the count by exactly 1,
\* deletes the entry and returns true exactly when the new count is <= 0 and
\* otherwise keeps it and returns false; on an absent id it returns false and
\* changes nothing; no other entry is changed.
C3_DecrementContract ==
    [][\A id \in Ids : Call_decrement_ref(id) =>
        /\ Present(id) =>
              LET n == store[id].reference_count - 1 IN
              IF n <= 0
              THEN ~PresentNext(id) /\ ret'.val = "true"
              ELSE /\ PresentNext(id)
                   /\ store'[id] = [store[id] EXCEPT !.reference_count = n]
                   /\ ret'.val = "false"
        /\ ~Present(id) => (store' = store /\ ret'.val = "false")
        /\ OthersUntouched(id)]_vars

\* C4: every entry present in the store has a reference count > 0.
C4_PresentCountPositive ==
    \A id \in DOMAIN store : store[id].reference_count > 0

C6_SweepKeepsLiveEntries ==
    [][\A a \in MaxAges : Call_cleanup_old_entries(a) =>
        \A id \in DOMAIN store :
            store[id].reference_count > 0
                => (PresentNext(id) /\ store'[id] = store[id])]_vars

\* A sweep has deleted an entry and kept a referenced entry that is at least
\* as old as the one it deleted.
C6_Witness ==
    /\ ret.op = "cleanup_old_entries" /\ ret.val = "unit"
    /\ \E e \in ret.out : \E id \in DOMAIN store :
          /\ store[id].reference_count > 0
          /\ store[id].created <= e.created

\* C7: with several callers running insert, get, increment_ref and
\* decrement_ref at once, whenever the Mutex is free the store (presence and
\* count of every identifier) is the one the same calls give when made one at
\* a time in the order they took the lock, and every call returns what it
\* returns in that sequential run: no increment or decrement is lost.
C7_CallsAreAtomic ==
    /\ lock = NoThread => (store = seq.store /\ poisoned = seq.poisoned)
    /\ \A t \in Threads :
          pc[t] = "unlock" => (cur[t].val = cur[t].seqval /\ cur[t].out = cur[t].seqout)

\* A caller holds the lock between the read and the write of an entry's count
\* in increment_ref while another caller, in decrement_ref on the same entry,
\* waits for the lock.
C7_Witness ==
    \E t, u \in Threads :
        /\ t # u
        /\ pc[t] = "store" /\ cur[t].op = "increment_ref" /\ lock = t
        /\ pc[u] = "lock" /\ cur[u].op = "decrement_ref"
        /\ cur[u].id = cur[t].id
        /\ cur[t].id \in DOMAIN store

\* C8: a drop notification for a handle whose entry is present with count
\* k > 1 leaves the entry present with count k - 1.
C8_DropDecrements ==
    [][\A id \in Ids :
        (custom_value_dropped(id) /\ Present(id) /\ store[id].reference_count > 1)
            => (PresentNext(id)
                /\ store'[id].reference_count = store[id].reference_count - 1)]_vars

\* C9: a drop notification for an identifier that is not in the store, or for
\* a custom value of another type, returns Ok and leaves the store unchanged;
\* a drop notification for X changes no entry other than X.
C9_DropOfAbsentIsNoOp ==
    [][/\ \A id \in Ids :
            /\ (custom_value_dropped(id) /\ ~Present(id))
                  => (ret'.val = "ok" /\ store' = store)
            /\ custom_value_dropped(id) => OthersUntouched(id)
       /\ custom_value_dropped_foreign => (ret'.val = "ok" /\ store' = store)]_vars

\* C10: every entry is stored under its own identifier, and an insert that
\* returns gives an identifier that was not in the store, adds the entry under
\* it and overwrites no existing entry.
C10_InsertsNeverCollide ==
    /\ [](\A id \in DOMAIN store : store[id].uuid = id)
    /\ [][(Bridge /\ ret'.val = "ok") =>
            /\ ret'.op \in InsertOps
            /\ ~Present(ret'.id)
            /\ DOMAIN store' = DOMAIN store \cup {ret'.id}
            /\ \A x \in DOMAIN store : store'[x] = store[x]]_vars

\* An insert has just returned and the store holds two entries.
C10_Witness ==
    /\ ret.op \in InsertOps /\ ret.val = "ok"
    /\ Present(ret.id)
    /\ Cardinality(DOMAIN store) = 2

\* The entry stored under the identifier has been deleted.
Deleted(id) == id \in deleted

\* C11: an identifier whose entry has been deleted (by decrement_ref, remove,
\* a drop notification or a sweep) is absent in every later state: no insert
\* brings it back, and increment_ref on it returns without error and leaves
\* the store as it is, also when a concurrent caller runs it on an entry that
\* a decrement_ref has just removed.
C11_DeletedStaysAbsent ==
    [][\A id \in Ids :
        /\ Deleted(id) => ~PresentNext(id)
        /\ (Deleted(id) /\ Call_increment_ref(id))
              => (ret'.val = "unit" /\ store' = store)
        /\ \A t \in Threads :
              (LoadCount(t) /\ cur[t].op = "increment_ref" /\ cur[t].id = id
                  /\ ~Present(id))
                  => (store' = store /\ cur'[t].val = "unit" /\ pc'[t] = "unlock")]_vars

\* The entry an insert stores under the identifier it returns.
Inserted(value) ==
    /\ ret'.val = "ok"
    /\ PresentNext(ret'.id)
    /\ store'[ret'.id] = CachedNickelValue(ret'.id, value, now, 1)
    /\ get(store', ret'.id) = Some(store'[ret'.id])
    /\ len(store') = len(store) + 1
    /\ \A x \in DOMAIN store : x \in DOMAIN store' /\ store'[x] = store[x]

\* C12: every insert (insert_json, insert_nickel_term, insert_evaluated)
\* succeeds and adds exactly one entry, with reference count 1 and the given
\* representation, under the identifier it returns: get of that identifier is
\* present right afterwards, len() has grown by exactly 1 and the entries
\* stored before are unchanged.
C12_InsertAlwaysAddsOne ==
    [][/\ \A j \in Jsons : cache_json_value(j) => Inserted(JsonValue(j))
       /\ \A src \in Sources, j \in Jsons \cup {NoneV}, ty \in TypeInfos :
             cache_nickel_term(src, j, ty) => Inserted(SerializedNickelTerm(j, src, ty))
       /\ \A j \in Jsons, src \in Sources \cup {NoneV} :
             cache_evaluated_value(j, src) => Inserted(EvaluatedValue(j, src))]_vars

Accessors == {"try_get_cached_json", "try_get_cached_source_code", "try_get_cached_value"}

\* C13: an accessor (try_get_cached_json, try_get_cached_source_code,
\* try_get_cached_value) called on a handle whose entry has been removed
\* returns the Not-Found error instead of crashing, and a resolve that fails
\* (Not-Found or Type-Mismatch) leaves the store, hence len() and every
\* reference count, as it was.
C13_StaleHandleIsNotFound ==
    [][\A id \in Ids :
        (\/ Call_try_get_cached_json(id)
         \/ Call_try_get_cached_source_code(id)
         \/ Call_try_get_cached_value(id))
        => /\ Deleted(id) => ret'.val = NotFound
           /\ ret'.val # "Ok" => (store' = store /\ len(store') = len(store))]_vars

\* C14: the source-text accessor on the handle of a cached Snapshot
\* (JsonValue) entry gives the Type-Mismatch error and no value; an accessor
\* on a present entry that cannot supply what it is asked for gives
\* Type-Mismatch, an accessor on the handle of an entry that is gone gives
\* Not-Found, and the two errors are different.
C14_WrongKindIsTypeMismatch ==
    /\ [](TypeMismatch # NotFound)
    /\ [][\A id \in Ids :
            /\ (Call_try_get_cached_source_code(id) /\ Present(id))
                  => /\ store[id].value.tag = "JsonValue"
                          => (ret'.val = TypeMismatch /\ ret'.out = None)
                     /\ as_source_code(store[id]) = None => ret'.val = TypeMismatch
                     /\ ret'.val # NotFound
            /\ (Call_try_get_cached_json(id) /\ Present(id))
                  => /\ as_json(store[id]) = None => ret'.val = TypeMismatch
                     /\ ret'.val # NotFound
            /\ (Call_try_get_cached_value(id) /\ Present(id))
                  => ret'.val \notin {TypeMismatch, NotFound}
            /\ ((\/ Call_try_get_cached_json(id)
                 \/ Call_try_get_cached_source_code(id)
                 \/ Call_try_get_cached_value(id)) /\ Deleted(id))
                  => ret'.val = NotFound]_vars

\* C15: try_get_cached_json on a handle returns Ok(None) exactly when the
\* entry is present and is a Source Term (SerializedNickelTerm) without a
\* snapshot; for every other present entry it returns the snapshot the entry
\* carries, and when the entry is absent it returns an error.
C15_SnapshotAccessorCases ==
    [][\A id \in Ids : Call_try_get_cached_json(id) =>
        /\ (ret'.val = "Ok" /\ ret'.out = None)
              <=> (/\ Present(id)
                   /\ store[id].value.tag = "SerializedNickelTerm"
                   /\ store[id].value.json = NoneV)
        /\ (Present(id) /\ store[id].value.json # NoneV)
              => (ret'.val = "Ok" /\ ret'.out = {[json |-> store[id].value.json]})
        /\ ~Present(id) => ret'.val \in {NotFound, TypeMismatch}]_vars

\* What the accessors give in the state a caching call leaves, called on the
\* handle that call returned.
JsonNext == IF poisoned' THEN Err("panic") ELSE try_get_cached_json(store', ret'.id)
SourceNext == IF poisoned' THEN Err("panic") ELSE try_get_cached_source_code(store', ret'.id)
ValueNext == IF poisoned' THEN Err("panic") ELSE try_get_cached_value(store', ret'.id)

\* C16: resolving the handle a caching call has just returned, with nothing
\* in between, gives back what was cached: cache_json_value(j) then
\* try_get_cached_json gives Some(j); cache_nickel_term(src, j, ty) then
\* try_get_cached_source_code gives Some(src) (and the snapshot j, when one
\* was given); cache_evaluated_value(j, src) then try_get_cached_json gives
\* Some(j) (and the source, when one was given); try_get_cached_value gives
\* the entry holding the representation cached.
C16_RoundTrip ==
    [][/\ \A j \in Jsons :
            (cache_json_value(j) /\ ret'.val = "ok")
                => /\ JsonNext = Ok(Some(j))
                   /\ ValueNext.val = "Ok"
                   /\ \A e \in ValueNext.out : e.value = JsonValue(j)
       /\ \A src \in Sources, j \in Jsons \cup {NoneV}, ty \in TypeInfos :
            (cache_nickel_term(src, j, ty) /\ ret'.val = "ok")
                => /\ SourceNext = Ok(Some(src))
                   /\ j # NoneV => JsonNext = Ok(Some(j))
                   /\ ValueNext.val = "Ok"
                   /\ \A e \in ValueNext.out : e.value = SerializedNickelTerm(j, src, ty)
       /\ \A j \in Jsons, src \in Sources \cup {NoneV} :
            (cache_evaluated_value(j, src) /\ ret'.val = "ok")
                => /\ JsonNext = Ok(Some(j))
                   /\ src # NoneV => SourceNext = Ok(Some(src))
                   /\ ValueNext.val = "Ok"
                   /\ \A e \in ValueNext.out : e.value = EvaluatedValue(j, src)]_vars

\* The source accessor has returned the source text of a term that was cached
\* with a snapshot while another entry is in the store.
C16_Witness ==
    /\ ret.op = "try_get_cached_source_code" /\ ret.val = "Ok"
    /\ Present(ret.id)
    /\ store[ret.id].value.tag = "SerializedNickelTerm"
    /\ store[ret.id].value.json # NoneV
    /\ ret.out = {[source_code |-> store[ret.id].value.source_code]}
    /\ Cardinality(DOMAIN store) = 2

\* C17: get(id) leaves the store as it is (entries, counts, len()), and the
\* entry it returns is the caller's own copy: no later increment_ref,
\* decrement_ref, remove or sweep on the store changes a copy a caller holds,
\* and a caller that changes its copy does not change the stored entry.
C17_GetCopiesOut ==
    [][/\ \A id \in Ids :
            Call_get(id)
                => /\ store' = store /\ len(store') = len(store)
                   /\ ret'.val = "ok" => ret'.out = get(store, id)
       /\ keep_copy => (copy' = ret.out /\ store' = store)
       /\ (copy # None /\ store' # store) => copy' = copy
       /\ edit_copy => store' = store]_vars

\* A caller holds the copy of an entry as it was when get returned it; since
\* then the entry's count in the store has been changed by increment_ref.
C17_Witness ==
    /\ ret.op = "increment_ref" /\ ret.val = "unit"
    /\ \E e \in copy :
          /\ Present(e.uuid)
          /\ store[e.uuid].reference_count = e.reference_count + 1

\* C18: remove(id) deletes the entry of id whatever its reference count and
\* returns the entry it deleted; for an absent id it returns None and changes
\* nothing; in both cases every other entry is left as it was.
C18_RemoveContract ==
    [][\A id \in Ids : Call_remove(id) =>
        /\ Present(id) => (~PresentNext(id) /\ ret'.out = Some(store[id]))
        /\ ~Present(id) => (ret'.val = "ok" /\ ret'.out = None /\ store' = store)
        /\ OthersUntouched(id)]_vars

\* The display record to_base_value has just returned, and the handle it
\* was called on.
Shown == CHOOSE x \in ret.out : TRUE

\* C19: the record to_base_value returns always has the fields id and type;
\* for a handle that carries entry data it has, besides them, exactly
\* object_type, reference_count and created, taken from that entry, and no
\* cached field; for a handle that carries none it has cached = false and
\* none of the three entry fields.
C19_DisplayRecordFields ==
    ret.op = "to_base_value" =>
        /\ ret.val = "Ok"
        /\ {"id", "type"} \subseteq DOMAIN Shown.record
        /\ Shown.record.id = to_string(Shown.self.id)
        /\ Shown.record.type = Shown.self.type_name
        /\ Shown.self.cached_value # None =>
              /\ DOMAIN Shown.record
                    = {"id", "type", "object_type", "reference_count", "created"}
              /\ \A e \in Shown.self.cached_value :
                    /\ Shown.record.object_type = object_type(e)
                    /\ Shown.record.reference_count = e.reference_count
                    /\ Shown.record.created = to_rfc3339(e.created)
        /\ Shown.self.cached_value = None =>
              /\ DOMAIN Shown.record = {"id", "type", "cached"}
              /\ Shown.record.cached = FALSE

\* A handle carrying the data of a term entry whose count is above 1 has
\* been displayed.
C19_Witness ==
    /\ ret.op = "to_base_value"
    /\ \E e \in Shown.self.cached_value :
          /\ e.reference_count > 1
          /\ Shown.record.object_type = "NickelTerm"

\* The call of nickel eval that has just returned.
Evaluated == CHOOSE x \in ret.out : TRUE

\* The stages in the order the claim gives them.
StageOrder == <<"new_from_source", "parse", "typecheck", "eval_full">>

\* The stages among those called; the calls made after the stages.
StagesRan(ran) == SelectSeq(ran, LAMBDA c : \E i \in 1 .. 4 : StageOrder[i] = c)

\* C20: evaluation runs program creation, parse, typecheck and evaluation in
\* that order and stops at the first stage that fails: it returns that
\* stage's labelled error and runs nothing after it; a source that fails to
\* parse gives an error whose message names a parse failure; a value is
\* produced only when all four stages have succeeded.
C20_StagesInOrderStopAtFirstFailure ==
    (ret.op = "nickel eval" /\ Evaluated.input \in {"path", "string"}) =>
        LET ran == Evaluated.ran
            ok == Evaluated.program.stage_ok
            n == Len(StagesRan(ran))
        IN /\ n >= 1
           /\ \A i \in 1 .. n : ran[i] = StageOrder[i]
           /\ \A i \in 1 .. n - 1 : ok[StageOrder[i]]
           /\ ~ok[StageOrder[n]] =>
                 /\ Len(ran) = n
                 /\ ret.val = StageLabel(StageOrder[n])
                 /\ Evaluated.kind = "none"
           /\ ok[StageOrder[n]] => n = 4
           /\ (ok["new_from_source"] /\ ~ok["parse"]) => ret.val = "Parse error"
           /\ Evaluated.kind # "none" => (n = 4 /\ \A i \in 1 .. 4 : ok[StageOrder[i]])

\* A source that fails to parse, and would have failed to typecheck and to
\* evaluate too, has been evaluated: the parse error came back.
C20_Witness ==
    /\ ret.op = "nickel eval"
    /\ Evaluated.input = "string"
    /\ Evaluated.ran = <<"new_from_source", "parse">>
    /\ ~Evaluated.program.stage_ok["typecheck"]
    /\ ~Evaluated.program.stage_ok["eval_full"]
    /\ ret.val = "Parse error"

\* The calls made after the four stages of an evaluation that got through them.
AfterStages(ran) == SubSeq(ran, Len(StageOrder) + 1, Len(ran))

\* The one serializer the claim's precedence picks for the switches, or
\* "nickel_to_nu_value" with no switch set.
Picked(flags) ==
    CHOOSE c \in Formats \cup {"nickel_to_nu_value"} :
        /\ flags["json"] => c = "json"
        /\ (~flags["json"] /\ flags["yaml"]) => c = "yaml"
        /\ (~flags["json"] /\ ~flags["yaml"] /\ flags["toml"]) => c = "toml"
        /\ (~flags["json"] /\ ~flags["yaml"] /\ ~flags["toml"]) => c = "nickel_to_nu_value"

\* C23: after an evaluation whose four stages succeeded the output form
\* follows the switches with precedence json, yaml, toml: with --json the
\* JSON text whatever else is set, else with --yaml the YAML text, else with
\* --toml the TOML text, and a native value only with none of them; the
\* chosen serializer is the only call made, and when it fails its labelled
\* error is returned and no other format is tried.
C23_OutputFormatPrecedence ==
    (/\ ret.op = "nickel eval"
     /\ Evaluated.input \in {"path", "string"}
     /\ \A i \in 1 .. Len(StageOrder) : Evaluated.program.stage_ok[StageOrder[i]]) =>
        LET flags == Evaluated.flags
            c == Picked(flags)
        IN /\ AfterStages(Evaluated.ran) = <<c>>
           /\ c = "nickel_to_nu_value" => (ret.val = "Ok" /\ Evaluated.kind = "value")
           /\ Evaluated.kind = "value" => \A format \in Formats : ~flags[format]
           /\ c \in Formats =>
                 IF Evaluated.program.serialize_ok[c]
                 THEN ret.val = "Ok" /\ Evaluated.kind = c
                 ELSE ret.val = SerializeLabel(c) /\ Evaluated.kind = "none"

\* An evaluation with all three switches set, of a value that does not
\* serialize to JSON but does to YAML and TOML, has returned the JSON error.
C23_Witness ==
    /\ ret.op = "nickel eval"
    /\ Evaluated.input = "string"
    /\ \A format \in Formats : Evaluated.flags[format]
    /\ ~Evaluated.program.serialize_ok["json"]
    /\ Evaluated.program.serialize_ok["yaml"]
    /\ Evaluated.program.serialize_ok["toml"]
    /\ Evaluated.ran = <<"new_from_source", "parse", "typecheck", "eval_full", "json">>
    /\ ret.val = "JSON serialization error"

\* C24: in every state reached from the empty store by insert_*, get,
\* increment_ref, decrement_ref and remove, cleanup_old_entries removes no
\* entry and leaves the store unchanged, whatever max_age is: no stored
\* entry has a count <= 0.
C24_SweepRemovesNothing ==
    [][\A a \in MaxAges : Call_cleanup_old_entries(a) => store' = store]_vars

\* C25: increment_ref on a present entry raises its count by exactly 1 and
\* never gives a count <= 0, however many increments came before, the one at
\* the i16 maximum 32767 included; the entry stays, with nothing else about
\* it changed, and the store stays usable (the call returns, the Mutex is not
\* poisoned).
C25_IncrementAddsOne ==
    [][\A id \in Ids : (Call_increment_ref(id) /\ Present(id)) =>
        /\ PresentNext(id)
        /\ store'[id] = [store[id] EXCEPT !.reference_count = store[id].reference_count + 1]
        /\ store'[id].reference_count > 0
        /\ ret'.val = "unit"
        /\ ~poisoned']_vars

\* The outcome the claim gives a call of nickel parse that does not get a
\* parsed program: the label of the step that failed.
ParseFailure(input, program) ==
    CASE input = "unreadable path" -> "Failed to read file"
      [] input = "empty" -> "No input provided"
      [] input = "other" -> "Invalid input type"
      [] ~program.stage_ok["new_from_source"] -> "Failed to create program"
      [] ~program.stage_ok["parse"] -> "Parse error"
      [] OTHER -> "Ok"

\* C22 (a call of nickel parse is the step that sets ret to what the call
\* gave): nickel parse inserts an entry only after program creation and
\* parsing have both succeeded; when reading the source, creating the
\* program or parsing fails, the command returns that step's labelled error
\* and the cache is exactly as before the call: no entry added, no count
\* changed.
C22_ParseCachesOnlyAfterSuccess ==
    [][(ret'.op = "nickel parse" /\ ret' # ret) =>
        LET call == CHOOSE x \in ret'.out : TRUE
            label == ParseFailure(call.input, call.program)
        IN /\ store' # store => label = "Ok"
           /\ label # "Ok" =>
                 /\ ret'.val = label
                 /\ store' = store
                 /\ issued' = issued
                 /\ poisoned' = poisoned]_vars

\* A source whose program is created but does not parse has been given to
\* nickel parse while the cache held an entry with a count above 1: the
\* parse error came back.
C22_Witness ==
    /\ ret.op = "nickel parse"
    /\ ret.val = "Parse error"
    /\ \E x \in ret.out : x.input = "string" /\ x.ran = <<"new_from_source", "parse">>
    /\ \E id \in DOMAIN store : store[id].reference_count > 1

\* The lock is held only by a thread inside a call that has taken it.
HeldInsideCall ==
    \A t \in Threads : pc[t] \in {"idle", "lock"} => lock # t

\* C21: every cache operation (insert, get, increment_ref, decrement_ref,
\* remove, len, is_empty, cleanup_old_entries) takes the one store lock,
\* holds it only while its call runs and gives it back when the call ends, so
\* under fair scheduling every call a thread has begun eventually ends, by
\* returning or by panicking, however the calls of the other threads
\* interleave with it: no caller waits for the lock forever.
C21_EveryCallCompletes ==
    /\ []HeldInsideCall
    /\ \A t \in Threads : (pc[t] # "idle") ~> (pc[t] = "idle")

\* A thread holds the lock in the body of cleanup_old_entries while another
\* thread, in remove, waits for the lock.
C21_Witness ==
    \E t, u \in Threads :
        /\ t # u
        /\ lock = t /\ pc[t] = "body" /\ cur[t].op = "cleanup_old_entries"
        /\ pc[u] = "lock" /\ cur[u].op = "remove"
        /\ cur[u].id \in DOMAIN store

====
